---------------------------- MODULE Spec2Model ----------------------------
(***************************************************************************)
(* Session core of the voice-assistant client                             *)
(* (src/front/src/components/useVoiceService.js).                         *)
(*                                                                         *)
(* The closure variables of useVoiceService() are the controller state.   *)
(* The objects they point to (WebSockets, microphone streams with their   *)
(* source nodes, PCM player worklet nodes) live in tables indexed by a    *)
(* creation number, because the handlers installed on them are closures   *)
(* over the controller variables and keep firing after the controller has *)
(* dropped its reference.  Every await on an operation that completes in  *)
(* a later task (getUserMedia, audioWorklet.addModule) splits its handler *)
(* in two: the part before the await runs in the triggering action, the   *)
(* rest is a record in pend that a Resume action runs later.              *)
(***************************************************************************)
EXTENDS Integers, Sequences, FiniteSets, TLC

\* ------------------------------------------------------------- bounds
MaxSessions == 2      \* startSession calls (AudioContexts / WebSockets created)
MaxChunks   == 2      \* tts_chunk messages delivered
MaxEnds     == 1      \* tts_end messages delivered
MaxPend     == 2      \* suspended async continuations at one time
MaxMics     == 2      \* microphone streams acquired
MaxPlayers  == 2      \* PCM player nodes created
MaxChunkLen == 1      \* samples one chunk yields after decoding and resampling
BlockSize   == 1      \* samples per output callback (out.length)
MaxProbeSamples == 4  \* samples enqueued when PCMPlayer is exercised on its own
MaxProbeBlock   == 3  \* largest output block then
MaxProbeCalls   == 3  \* output callbacks then
QuantDen    == 64     \* a capture sample is x / QuantDen (exact in binary floating point)
QuantMax    == 128    \* capture samples range over -QuantMax/QuantDen .. QuantMax/QuantDen
MaxWireLen  == 3      \* samples of a buffer when the wire format is exercised on its own

Int16Max  == 32767    \* 0x7FFF
Int16Span == 65536    \* values of an Int16Array element

Sessions  == 1..MaxSessions
ChunkLens == 1..MaxChunkLen

\* ------------------------------------------------------------- state
VARIABLES
  status,          \* status.value
  socket,          \* 0 = null, else the id of the WebSocket referenced
  audioContext,    \* 0 = null, else the id of the AudioContext referenced
  mediaStream,     \* 0 = null, else index into mics
  userSourceNode,  \* 0 = null, else index into mics
  userWorkletNode, \* 0 = null, else the AudioContext the capture worklet node is in
  ttsWorkletNode,  \* 0 = null, else index into players
  sttLocked,
  ttsPlaying,
  userAnalyser,    \* userAnalyser.value is set
  aiAnalyser,      \* aiAnalyser.value is set
  readyState,      \* of every WebSocket created
  failing,         \* sockets closed before they were established: error precedes close
  mics,            \* microphone streams with their MediaStreamSource nodes
  players,         \* PCM player worklet nodes: processor state, 'ended' posted
  modules,         \* processor names registered in the current AudioContext
  pend,            \* suspended continuations
  nChunk,          \* tts_chunk messages delivered (the latest chunk's number)
  nEnd,            \* tts_end messages delivered
  endSeq,          \* nChunk at the latest tts_end
  torn,            \* sessions on which stopSession ran to completion
  op,              \* the event handled last
  probe            \* the audio-thread function under test and its data (none in a session)

vars == <<status, socket, audioContext, mediaStream, userSourceNode, userWorkletNode,
          ttsWorkletNode, sttLocked, ttsPlaying, userAnalyser, aiAnalyser, readyState,
          failing, mics, players, modules, pend, nChunk, nEnd, endSeq, torn, op, probe>>

\* The session attributes of spec section 3 and the device handles.
sessionVars == <<status, socket, mediaStream, userSourceNode, userWorkletNode,
                 ttsWorkletNode, sttLocked, ttsPlaying, userAnalyser, aiAnalyser>>

World ==
  [status |-> status, socket |-> socket, audioContext |-> audioContext,
   mediaStream |-> mediaStream, userSourceNode |-> userSourceNode,
   userWorkletNode |-> userWorkletNode, ttsWorkletNode |-> ttsWorkletNode,
   sttLocked |-> sttLocked, ttsPlaying |-> ttsPlaying,
   userAnalyser |-> userAnalyser, aiAnalyser |-> aiAnalyser,
   readyState |-> readyState, failing |-> failing, mics |-> mics,
   players |-> players, modules |-> modules, pend |-> pend,
   nChunk |-> nChunk, nEnd |-> nEnd, endSeq |-> endSeq, torn |-> torn, op |-> op]

Set(w) ==
  /\ status' = w.status
  /\ socket' = w.socket
  /\ audioContext' = w.audioContext
  /\ mediaStream' = w.mediaStream
  /\ userSourceNode' = w.userSourceNode
  /\ userWorkletNode' = w.userWorkletNode
  /\ ttsWorkletNode' = w.ttsWorkletNode
  /\ sttLocked' = w.sttLocked
  /\ ttsPlaying' = w.ttsPlaying
  /\ userAnalyser' = w.userAnalyser
  /\ aiAnalyser' = w.aiAnalyser
  /\ readyState' = w.readyState
  /\ failing' = w.failing
  /\ mics' = w.mics
  /\ players' = w.players
  /\ modules' = w.modules
  /\ pend' = w.pend
  /\ nChunk' = w.nChunk
  /\ nEnd' = w.nEnd
  /\ endSeq' = w.endSeq
  /\ torn' = w.torn
  /\ op' = w.op
  /\ UNCHANGED probe

\* The tables stay within the bounds of the model.
Fits(w) ==
  /\ w.audioContext <= MaxSessions
  /\ Len(w.pend) <= MaxPend
  /\ Len(w.mics) <= MaxMics
  /\ Len(w.players) <= MaxPlayers
  /\ w.nChunk <= MaxChunks
  /\ w.nEnd <= MaxEnds

\* The world as a control-context event finds it: op names the event and, once
\* the handler has run, tells whether it ran stopSession past its guard.
Begin(ev) == [World EXCEPT !.op = [ev |-> ev, tore |-> FALSE]]

Remove(seq, i) == SubSeq(seq, 1, i - 1) \o SubSeq(seq, i + 1, Len(seq))

IsOpen(w) == w.socket # 0 /\ w.readyState[w.socket] = "OPEN"

\* The state after useVoiceService() has run.
InitSession ==
  /\ status = "idle"
  /\ socket = 0
  /\ audioContext = 0
  /\ mediaStream = 0
  /\ userSourceNode = 0
  /\ userWorkletNode = 0
  /\ ttsWorkletNode = 0
  /\ sttLocked = FALSE
  /\ ttsPlaying = FALSE
  /\ userAnalyser = FALSE
  /\ aiAnalyser = FALSE
  /\ readyState = [s \in Sessions |-> "NONE"]
  /\ failing = {}
  /\ mics = <<>>
  /\ players = <<>>
  /\ modules = {}
  /\ pend = <<>>
  /\ nChunk = 0
  /\ nEnd = 0
  /\ endSeq = 0
  /\ torn = {}
  /\ op = [ev |-> "init", tore |-> FALSE]

NoProbe == [kind |-> "none"]

Init == InitSession /\ probe = NoProbe

\* ------------------------------------------------ controller functions

\* stopListening: mute the tracks of the current stream.
stopListening(w) ==
  IF w.mediaStream # 0
    THEN [w EXCEPT !.mics[w.mediaStream].enabled = FALSE]
    ELSE w

\* WebSocket.close(): a socket not yet established fails (error, then close).
closeSocket(w, s) ==
  CASE w.readyState[s] = "CONNECTING" ->
         [w EXCEPT !.readyState[s] = "CLOSING", !.failing = @ \cup {s}]
    [] w.readyState[s] = "OPEN" -> [w EXCEPT !.readyState[s] = "CLOSING"]
    [] OTHER -> w

\* A stop that does no more than onclose does.
teardown_statusOnly(w) ==
  [w EXCEPT !.status = "idle", !.torn = @ \cup {w.audioContext}, !.op.tore = TRUE]

\* The body of stopSession after its guard.
teardown(w) ==
  LET w1 == stopListening(w)
      w2 == IF w1.socket # 0
              THEN [closeSocket(w1, w1.socket) EXCEPT !.socket = 0]
              ELSE w1
      w3 == IF w2.mediaStream # 0
              THEN [w2 EXCEPT !.mics[w2.mediaStream].live = FALSE, !.mediaStream = 0]
              ELSE w2
      w4 == IF w3.userSourceNode # 0
              THEN [w3 EXCEPT !.mics[w3.userSourceNode].conn = FALSE,
                              !.userSourceNode = 0]
              ELSE w3
      w5 == [w4 EXCEPT !.userWorkletNode = 0]
      w6 == IF w5.ttsWorkletNode # 0
              THEN [w5 EXCEPT !.players[w5.ttsWorkletNode].conn = FALSE,
                              !.ttsWorkletNode = 0]
              ELSE w5
  IN [w6 EXCEPT !.sttLocked = FALSE, !.ttsPlaying = FALSE, !.status = "idle",
                !.userAnalyser = FALSE, !.aiAnalyser = FALSE,
                !.torn = @ \cup {w.audioContext}, !.op.tore = TRUE]

\* stopSession without its guard.
stopSession_unguarded(w) == teardown(w)

stopSession(w) == IF w.status = "idle" THEN w ELSE teardown(w)

\* setupWebSocket: a new socket, numbered like the AudioContext created with it.
setupWebSocket(w) ==
  IF w.audioContext \in Sessions
    THEN [w EXCEPT !.socket = w.audioContext,
                   !.readyState[w.audioContext] = "CONNECTING"]
    ELSE [w EXCEPT !.socket = w.audioContext]

\* new AudioContext(): contexts and sockets are created together, one pair per start.
newContext(w) == Cardinality({s \in Sessions : w.readyState[s] # "NONE"}) + 1

startSession(w) ==
  IF w.status # "idle" THEN w
  ELSE setupWebSocket([w EXCEPT !.status = "connecting",
                                !.audioContext = newContext(w),
                                !.modules = {}])

toggleSession(w) == IF w.status = "idle" THEN startSession(w) ELSE stopSession(w)


\* A handler reaches an await on an operation that completes in a later task:
\* what is left of it waits in pend.  c is the AudioContext (the session) current
\* at the await, cid/len the chunk the handler holds.
\* pend is kept in one fixed order, which has no meaning: any entry may resume.
Key(e) == (CASE e.k = "getUserMedia" -> 0 [] e.k = "addModule" -> 1
             [] e.k = "final_answer" -> 2 [] OTHER -> 3) * 1000
          + e.c * 100 + e.cid * 10 + e.len

Ins(seq, e) ==
  LET n == Cardinality({j \in 1..Len(seq) : Key(seq[j]) <= Key(e)})
  IN SubSeq(seq, 1, n) \o <<e>> \o SubSeq(seq, n + 1, Len(seq))

suspend(w, k, cid, len) ==
  [w EXCEPT !.pend = Ins(@, [k |-> k, c |-> w.audioContext, cid |-> cid, len |-> len])]

\* startListening up to its first await (or to its end, when the stream is reused).
startListening(w) ==
  IF w.sttLocked \/ ~IsOpen(w) THEN w
  ELSE LET w1 == [w EXCEPT !.status = "listening"]
       IN IF w1.mediaStream = 0 \/ ~w1.mics[w1.mediaStream].live
            THEN suspend(w1, "getUserMedia", 0, 0)
            ELSE [w1 EXCEPT !.mics[w1.mediaStream].enabled = TRUE]

\* The catch block without its stopSession.
resumeGetUserMedia_denialIgnored(w, i, granted) == [w EXCEPT !.pend = Remove(@, i)]

\* startListening from the getUserMedia await to the addModule await; the catch
\* block when the promise rejects.  A fresh stream has its tracks enabled.
resumeGetUserMedia(w, i, granted) ==
  LET w1 == [w EXCEPT !.pend = Remove(@, i)]
      m  == Len(w1.mics) + 1
      w2 == [w1 EXCEPT !.mics = Append(@, [ctx |-> w1.audioContext, enabled |-> TRUE,
                                           live |-> TRUE, conn |-> FALSE]),
                       !.mediaStream = m, !.userSourceNode = m,
                       !.userAnalyser = TRUE]
  IN IF ~granted THEN stopSession(w1)
     ELSE suspend(w2, "addModule", 0, 0)

\* startListening after the addModule await.  The AudioWorkletNode constructor
\* throws when the processor is not registered in the context now current, and
\* connect throws on a null source or a source of another context: both land in
\* the catch block.
resumeCaptureModule(w, i) ==
  LET w1 == [w EXCEPT !.pend = Remove(@, i),
                      !.modules = IF w.pend[i].c = w.audioContext
                                    THEN @ \cup {"resampler-processor"} ELSE @]
      w2 == [w1 EXCEPT !.userWorkletNode = w1.audioContext]
  IN IF "resampler-processor" \notin w1.modules
       THEN stopSession(w1)
     ELSE IF w2.userSourceNode = 0 \/ w2.mics[w2.userSourceNode].ctx # w2.audioContext
       THEN stopSession(w2)
     ELSE IF w2.mediaStream = 0
       THEN stopSession([w2 EXCEPT !.mics[w2.userSourceNode].conn = TRUE])
     ELSE [w2 EXCEPT !.mics[w2.userSourceNode].conn = TRUE,
                     !.mics[w2.mediaStream].enabled = TRUE]

\* PCMPlayer port.onmessage.  The audio thread handles the messages posted to a
\* node in port order before the node's next process() call, and nothing else
\* reads the processor's fields: a message takes effect where it is posted.
samples(cid, len) == [j \in 1..len |-> cid]

enqueue(pl, f32) == [pl EXCEPT !.buf = @ \o f32]

playerReceive(pl, msg) ==
  IF msg.type = "chunk" THEN enqueue(pl, samples(msg.cid, msg.len))
  ELSE IF msg.type = "end" THEN [pl EXCEPT !.ended = TRUE]
  ELSE pl

\* pushTtsChunkBase64: the decoded chunk is posted to the current player node.
\* The payload is the chunk's arrival number and its length in samples.
pushTtsChunkBase64(w, cid, len) ==
  IF w.ttsWorkletNode = 0 THEN w
  ELSE LET w1 == [w EXCEPT !.players[w.ttsWorkletNode] =
                              playerReceive(@, [type |-> "chunk", cid |-> cid,
                                                len |-> len])]
       IN IF ~w1.ttsPlaying
            THEN [w1 EXCEPT !.status = "speaking", !.ttsPlaying = TRUE]
            ELSE w1

endTtsStream(w) ==
  IF w.ttsWorkletNode = 0 THEN w
  ELSE [w EXCEPT !.players[w.ttsWorkletNode] =
                    playerReceive(@, [type |-> "end", cid |-> 0, len |-> 0])]

\* socket.onmessage, one operator per case.  With a player node in place
\* initTtsPlayer returns at once and the handler finishes in the same task;
\* without one the handler waits for addModule.
onSttEnd(w) == [stopListening(w) EXCEPT !.sttLocked = TRUE, !.status = "processing"]

onFinalAnswer(w) ==
  LET w1 == [w EXCEPT !.status = "processing"]
  IN IF w1.ttsWorkletNode = 0
       THEN suspend(w1, "final_answer", 0, 0)
       ELSE [w1 EXCEPT !.sttLocked = TRUE]

onTtsChunk(w, cid, len) ==
  LET w1 == IF ~w.sttLocked THEN stopListening([w EXCEPT !.sttLocked = TRUE]) ELSE w
  IN IF w1.ttsWorkletNode = 0
       THEN suspend(w1, "tts_chunk", cid, len)
       ELSE pushTtsChunkBase64(w1, cid, len)

onTtsEnd(w) == endTtsStream(w)

\* The error case doing what onclose does.
onErrorMessage_statusOnly(w) == [w EXCEPT !.status = "idle"]

onErrorMessage(w) == stopSession(w)

\* initTtsPlayer after its await, then the rest of the message handler that
\* awaited it.  The node is created whether or not one exists by now.  When the
\* processor is not registered in the context now current the constructor throws
\* and the handler's promise rejects with nobody listening.
resumeInitTtsPlayer(w, i) ==
  LET p  == w.pend[i]
      w1 == [w EXCEPT !.pend = Remove(@, i),
                      !.modules = IF p.c = w.audioContext
                                    THEN @ \cup {"pcm-player"} ELSE @]
      n  == Len(w1.players) + 1
      w2 == [w1 EXCEPT !.players = Append(@, [ctx |-> w1.audioContext, conn |-> TRUE,
                                              buf |-> <<>>, ended |-> FALSE,
                                              out |-> 0]),
                       !.ttsWorkletNode = n, !.aiAnalyser = TRUE]
  IN IF "pcm-player" \notin w1.modules THEN w1
     ELSE IF p.k = "final_answer" THEN [w2 EXCEPT !.sttLocked = TRUE]
     ELSE pushTtsChunkBase64(w2, p.cid, p.len)

\* ttsWorkletNode.port.onmessage for an 'ended' notification.
onPlayerEnded(w) ==
  LET w1 == [w EXCEPT !.ttsPlaying = FALSE, !.sttLocked = FALSE]
  IN IF IsOpen(w1) THEN startListening(w1) ELSE stopSession(w1)

onopen(w) == startListening(w)
onerror(w) == stopSession(w)
onclose(w) == [w EXCEPT !.status = "idle"]

\* The frame guard without the lock test.
frameSent_lockIgnored(w) == ~(w.socket = 0 \/ ~IsOpen(w))

\* userWorkletNode.port.onmessage: TRUE when the frame goes out on the socket.
frameSent(w) == ~(w.sttLocked \/ w.socket = 0 \/ ~IsOpen(w))

\* ------------------------------------------------ PCMPlayer (audio thread)

\* An output block that is all silence when the buffer falls short.
processOut_silentUnderrun(pl, n) ==
  IF Len(pl.buf) >= n THEN SubSeq(pl.buf, 1, n) ELSE [j \in 1..n |-> 0]

\* PCMPlayer.process for an output block of n samples: the block written.
processOut(pl, n) ==
  IF Len(pl.buf) >= n THEN SubSeq(pl.buf, 1, n)
  ELSE pl.buf \o [j \in 1..(n - Len(pl.buf)) |-> 0]

\* PCMPlayer.process: the processor afterwards; out counts 'ended' posted.
process(pl, n) ==
  IF Len(pl.buf) >= n THEN [pl EXCEPT !.buf = SubSeq(@, n + 1, Len(@))]
  ELSE IF pl.ended THEN [pl EXCEPT !.buf = <<>>, !.ended = FALSE, !.out = @ + 1]
  ELSE [pl EXCEPT !.buf = <<>>]

\* ------------------------------------------------------------ actions

\* The user presses the button.
Toggle ==
  LET w == toggleSession(Begin("toggle"))
  IN Fits(w) /\ Set(w)

\* The connection is established.
SocketOpen(s) ==
  /\ readyState[s] = "CONNECTING"
  /\ LET w == onopen([Begin("open") EXCEPT !.readyState[s] = "OPEN"])
     IN Fits(w) /\ Set(w)

\* Inbound messages; the browser delivers them on an OPEN socket only.
SttEnd(s) ==
  /\ readyState[s] = "OPEN"
  /\ LET w == onSttEnd(Begin("stt_end"))
     IN Fits(w) /\ Set(w)

FinalAnswer(s) ==
  /\ readyState[s] = "OPEN"
  /\ LET w == onFinalAnswer(Begin("final_answer"))
     IN Fits(w) /\ Set(w)

TtsChunk(s, len) ==
  /\ readyState[s] = "OPEN"
  /\ LET w == onTtsChunk([Begin("tts_chunk") EXCEPT !.nChunk = @ + 1],
                         nChunk + 1, len)
     IN Fits(w) /\ Set(w)

TtsEnd(s) ==
  /\ readyState[s] = "OPEN"
  /\ LET w == onTtsEnd([Begin("tts_end") EXCEPT !.nEnd = @ + 1, !.endSeq = nChunk])
     IN Fits(w) /\ Set(w)

ErrorMessage(s) ==
  /\ readyState[s] = "OPEN"
  /\ LET w == onErrorMessage(Begin("error"))
     IN Fits(w) /\ Set(w)

\* The connection fails (it cannot be established, it drops, or close() was
\* called before it was established): the browser fires error, then close, in
\* one task.
SocketError(s) ==
  /\ \/ readyState[s] \in {"CONNECTING", "OPEN"}
     \/ readyState[s] = "CLOSING" /\ s \in failing
  /\ LET w == onclose(onerror([Begin("socket_error") EXCEPT
                                 !.readyState[s] = "CLOSED"]))
     IN Fits(w) /\ Set(w)

\* The connection closes cleanly (the server closes it, or the closing
\* handshake that close() started completes): the browser fires close.
SocketClosed(s) ==
  /\ \/ readyState[s] = "OPEN"
     \/ readyState[s] = "CLOSING" /\ s \notin failing
  /\ LET w == onclose([Begin("socket_close") EXCEPT !.readyState[s] = "CLOSED"])
     IN Fits(w) /\ Set(w)

\* getUserMedia settles.
ResumeGetUserMedia(i, granted) ==
  /\ i \in 1..Len(pend)
  /\ pend[i].k = "getUserMedia"
  /\ LET w == resumeGetUserMedia(Begin("getUserMedia"), i, granted)
     IN Fits(w) /\ Set(w)

\* The capture worklet module is loaded.
ResumeCaptureModule(i) ==
  /\ i \in 1..Len(pend)
  /\ pend[i].k = "addModule"
  /\ LET w == resumeCaptureModule(Begin("addModule"), i)
     IN Fits(w) /\ Set(w)

\* The player worklet module is loaded.
ResumeInitTtsPlayer(i) ==
  /\ i \in 1..Len(pend)
  /\ pend[i].k \in {"final_answer", "tts_chunk"}
  /\ LET w == resumeInitTtsPlayer(Begin("initTtsPlayer"), i)
     IN Fits(w) /\ Set(w)

\* A capture block arrives from a capture worklet whose source is connected.
\* Muted tracks yield silent blocks, which arrive all the same.
CaptureFrame(k) ==
  /\ k \in 1..Len(mics)
  /\ mics[k].conn
  /\ Set(Begin(IF frameSent(World) THEN "frame_sent" ELSE "frame_dropped"))

\* One render quantum of an AudioContext: process() runs on every player node
\* of the context.  A node whose process() returns true stays active, connected
\* to the output or not.  The control context is not involved: op stays.
Render(c) ==
  /\ \E p \in 1..Len(players) : players[p].ctx = c
  /\ Set([World EXCEPT
            !.players = [p \in 1..Len(players) |->
                           IF players[p].ctx = c THEN process(players[p], BlockSize)
                                                 ELSE players[p]]])

\* An 'ended' notification reaches the control context.
PlayerEnded(p) ==
  /\ p \in 1..Len(players)
  /\ players[p].out > 0
  /\ LET w == onPlayerEnded([Begin("ended") EXCEPT
                               !.players[p].out = @ - 1])
     IN Fits(w) /\ Set(w)

Next ==
  \/ Toggle
  \/ \E s \in Sessions : SocketOpen(s)
  \/ \E s \in Sessions : SttEnd(s)
  \/ \E s \in Sessions : FinalAnswer(s)
  \/ \E s \in Sessions, len \in ChunkLens : TtsChunk(s, len)
  \/ \E s \in Sessions : TtsEnd(s)
  \/ \E s \in Sessions : ErrorMessage(s)
  \/ \E s \in Sessions : SocketError(s)
  \/ \E s \in Sessions : SocketClosed(s)
  \/ \E i \in 1..MaxPend, granted \in BOOLEAN : ResumeGetUserMedia(i, granted)
  \/ \E i \in 1..MaxPend : ResumeCaptureModule(i)
  \/ \E i \in 1..MaxPend : ResumeInitTtsPlayer(i)
  \/ \E k \in 1..MaxMics : CaptureFrame(k)
  \/ \E c \in Sessions : Render(c)
  \/ \E p \in 1..MaxPlayers : PlayerEnded(p)

Spec == Init /\ [][Next]_vars

\* Scheduling the platform guarantees: a promise that can settle does settle, a
\* running AudioContext keeps calling process(), a posted port message is
\* delivered.  Nothing is assumed of the user or of the server.
Fairness ==
  /\ WF_vars(\E i \in 1..MaxPend, granted \in BOOLEAN : ResumeGetUserMedia(i, granted))
  /\ WF_vars(\E i \in 1..MaxPend : ResumeCaptureModule(i))
  /\ WF_vars(\E i \in 1..MaxPend : ResumeInitTtsPlayer(i))
  /\ \A c \in Sessions : WF_vars(Render(c))
  /\ WF_vars(\E p \in 1..MaxPlayers : PlayerEnded(p))

FairSpec == Init /\ [][Next]_vars /\ Fairness

\* ------------------------------------------- PCMPlayer on its own

\* Everything but probe: the session stays as constructed while a function of
\* the audio thread is exercised on its own.
sessionState ==
  <<status, socket, audioContext, mediaStream, userSourceNode, userWorkletNode,
    ttsWorkletNode, sttLocked, ttsPlaying, userAnalyser, aiAnalyser, readyState,
    failing, mics, players, modules, pend, nChunk, nEnd, endSeq, torn, op>>

\* A PCMPlayer as its constructor leaves it, with the record of what it was
\* given (enq samples, numbered 1, 2, ...) and of what it wrote (heard); before,
\* n and block describe the latest output callback.
PlayerInit ==
  /\ InitSession
  /\ probe = [kind |-> "player",
              pl |-> [ctx |-> 0, conn |-> TRUE, buf |-> <<>>, ended |-> FALSE,
                      out |-> 0],
              enq |-> 0, heard |-> <<>>, last |-> "new",
              before |-> <<>>, n |-> 0, block |-> <<>>, calls |-> 0]

\* enqueue(f32) with len fresh samples.
ProbeEnqueue(len) ==
  /\ probe.kind = "player"
  /\ probe.enq + len <= MaxProbeSamples
  /\ probe' = [probe EXCEPT
                 !.pl = enqueue(@, [j \in 1..len |-> probe.enq + j]),
                 !.enq = @ + len, !.last = "enqueue"]
  /\ UNCHANGED sessionState

\* The 'end' message.
ProbeEnd ==
  /\ probe.kind = "player"
  /\ ~probe.pl.ended
  /\ probe' = [probe EXCEPT
                 !.pl = playerReceive(@, [type |-> "end", cid |-> 0, len |-> 0]),
                 !.last = "end"]
  /\ UNCHANGED sessionState

\* process() with an output block of n samples.
ProbeProcess(n) ==
  /\ probe.kind = "player"
  /\ probe.calls < MaxProbeCalls
  /\ probe' = [probe EXCEPT
                 !.before = probe.pl.buf, !.n = n,
                 !.block = processOut(probe.pl, n),
                 !.heard = @ \o processOut(probe.pl, n),
                 !.pl = process(@, n),
                 !.calls = @ + 1, !.last = "process"]
  /\ UNCHANGED sessionState

PlayerNext ==
  \/ \E len \in 1..MaxProbeSamples : ProbeEnqueue(len)
  \/ ProbeEnd
  \/ \E n \in 1..MaxProbeBlock : ProbeProcess(n)

PlayerSpec == PlayerInit /\ [][PlayerNext]_vars

\* ------------------------------------------- ResamplerProcessor on its own

\* p / d truncated toward zero (d > 0).
Trunc(p, d) == IF p >= 0 THEN p \div d ELSE -((-p) \div d)

\* Storing a number in an Int16Array element: truncation toward zero, then
\* reduction modulo 2^16 into -32768..32767.
ToInt16(p, d) ==
  LET m == Trunc(p, d) % Int16Span
  IN IF m >= Int16Span \div 2 THEN m - Int16Span ELSE m

\* float32ToInt16 for one sample x / QuantDen: Math.min(1, x) * 0x7FFF, stored in
\* an Int16Array.
float32ToInt16(x) ==
  LET capped == IF x > QuantDen THEN QuantDen ELSE x
  IN ToInt16(capped * Int16Max, QuantDen)

QuantInit ==
  /\ InitSession
  /\ probe \in [kind : {"sample"}, x : (-QuantMax)..QuantMax, done : {FALSE}, q : {0}]

\* The sample is quantized.
Quantize ==
  /\ probe.kind = "sample"
  /\ ~probe.done
  /\ probe' = [probe EXCEPT !.q = float32ToInt16(probe.x), !.done = TRUE]
  /\ UNCHANGED sessionState

QuantNext == Quantize

QuantSpec == QuantInit /\ [][QuantNext]_vars

\* ------------------------------------------- wire format on its own

\* The base64 alphabet; a text is a sequence of its characters, "=" pads.
Alphabet ==
  << "A", "B", "C", "D", "E", "F", "G", "H", "I", "J", "K", "L", "M",
     "N", "O", "P", "Q", "R", "S", "T", "U", "V", "W", "X", "Y", "Z",
     "a", "b", "c", "d", "e", "f", "g", "h", "i", "j", "k", "l", "m",
     "n", "o", "p", "q", "r", "s", "t", "u", "v", "w", "x", "y", "z",
     "0", "1", "2", "3", "4", "5", "6", "7", "8", "9", "+", "/" >>

Int16 == (-(Int16Span \div 2))..Int16Max

\* new Uint8Array(event.data) on the buffer of an Int16Array: each element is
\* two bytes of its two's complement, in the byte order of the platform.
Uint8View(i16, littleEndian) ==
  [k \in 1..(2 * Len(i16)) |->
     LET u  == i16[(k + 1) \div 2] % Int16Span
         lo == u % 256
         hi == u \div 256
     IN IF (k % 2 = 1) = littleEndian THEN lo ELSE hi]

\* btoa(String.fromCharCode.apply(null, u8)): a binary string is the sequence
\* of its character codes, here the bytes; three bytes give four characters,
\* a last group of one or two bytes is padded.
RECURSIVE btoa(_)
btoa(bin) ==
  IF Len(bin) = 0 THEN <<>>
  ELSE LET b1 == bin[1]
           b2 == IF Len(bin) >= 2 THEN bin[2] ELSE 0
           b3 == IF Len(bin) >= 3 THEN bin[3] ELSE 0
           c1 == Alphabet[(b1 \div 4) + 1]
           c2 == Alphabet[((b1 % 4) * 16 + b2 \div 16) + 1]
           c3 == Alphabet[((b2 % 16) * 4 + b3 \div 64) + 1]
           c4 == Alphabet[(b3 % 64) + 1]
       IN IF Len(bin) = 1 THEN <<c1, c2, "=", "=">>
          ELSE IF Len(bin) = 2 THEN <<c1, c2, c3, "=">>
          ELSE <<c1, c2, c3, c4>> \o btoa(SubSeq(bin, 4, Len(bin)))

\* atob(b64) of a padded text: the character codes of the binary string.
RECURSIVE atob(_)
atob(b64) ==
  IF Len(b64) = 0 THEN <<>>
  ELSE LET v(c) == (CHOOSE i \in 1..64 : Alphabet[i] = c) - 1
           a == v(b64[1])
           b == v(b64[2])
       IN IF b64[3] = "=" THEN << a * 4 + b \div 16 >>
          ELSE LET c == v(b64[3])
               IN IF b64[4] = "="
                  THEN << a * 4 + b \div 16, (b % 16) * 16 + c \div 4 >>
                  ELSE << a * 4 + b \div 16, (b % 16) * 16 + c \div 4,
                          (c % 4) * 64 + v(b64[4]) >>
                         \o atob(SubSeq(b64, 5, Len(b64)))

\* The loop of pushTtsChunkBase64 read as if the elements were unsigned.
decodePcm16_unsigned(bin) ==
  [k \in 1..(Len(bin) \div 2) |-> bin[2 * k] * 256 + bin[2 * k - 1]]

\* The loop of pushTtsChunkBase64: i16[i / 2] = (hi << 8) | lo for each pair of
\* characters lo, hi, stored in an Int16Array of len / 2 elements.
decodePcm16(bin) ==
  [k \in 1..(Len(bin) \div 2) |-> ToInt16(bin[2 * k] * 256 + bin[2 * k - 1], 1)]

\* Sample values at the edges of the bytes and of the range.
EdgeSamples == {-(Int16Span \div 2), -Int16Max, -256, -1, 0, 1, 255, 256, Int16Max}

\* A capture buffer: one sample of any value, or up to MaxWireLen edge samples.
WireBuffers ==
  {<<x>> : x \in Int16} \cup UNION {[1..n -> EdgeSamples] : n \in 0..MaxWireLen}

WireInit ==
  /\ InitSession
  /\ probe \in [kind : {"wire"}, littleEndian : BOOLEAN, pcm : WireBuffers,
                sent : {FALSE}, b64 : {<<>>}, pushed : {FALSE}, i16 : {<<>>}]

\* The capture path encodes the buffer and sends the text.
EncodeFrame ==
  /\ probe.kind = "wire"
  /\ ~probe.sent
  /\ probe' = [probe EXCEPT
                 !.b64 = btoa(Uint8View(probe.pcm, probe.littleEndian)),
                 !.sent = TRUE]
  /\ UNCHANGED sessionState

\* The playback path decodes the text it is given.
DecodeChunk ==
  /\ probe.kind = "wire"
  /\ probe.sent /\ ~probe.pushed
  /\ probe' = [probe EXCEPT !.i16 = decodePcm16(atob(probe.b64)),
                            !.pushed = TRUE]
  /\ UNCHANGED sessionState

WireNext ==
  \/ EncodeFrame
  \/ DecodeChunk

WireSpec == WireInit /\ [][WireNext]_vars

\* ------------------------------------------------------------ properties

Busy == status \in {"processing", "speaking"}

\* The session variables of a world: status, connection, capture lock, playback
\* flag, device handles, taps.
SessionOf(w) ==
  <<w.status, w.socket, w.mediaStream, w.userSourceNode, w.userWorkletNode,
    w.ttsWorkletNode, w.sttLocked, w.ttsPlaying, w.userAnalyser, w.aiAnalyser>>

\* C1: in every reachable state sttLocked is true whenever status is 'processing'
\* or 'speaking' and false whenever status is 'idle' or 'listening'.
C1_LockFollowsStatus ==
  /\ Busy => sttLocked
  /\ status \in {"idle", "listening"} => ~sttLocked

\* C2: no capture frame is sent while status is 'processing' or 'speaking'
\* (handling a capture frame leaves status as it is, so the status after the
\* frame is the status the frame was handled in).
C2_NoFrameSentWhileBusy == ~(op.ev = "frame_sent" /\ Busy)

\* C3: handling a capture frame sends it exactly when sttLocked is false and the
\* current socket is OPEN; otherwise the frame is dropped, and either way nothing
\* is queued: no variable of the session, no table and no continuation changes.
C3_FrameSentIffUnlockedAndOpen ==
  [][(\E k \in 1..Len(mics) : CaptureFrame(k)) =>
       /\ op'.ev \in {"frame_sent", "frame_dropped"}
       /\ op'.ev = "frame_sent" <=>
            (~sttLocked /\ socket # 0 /\ readyState[socket] = "OPEN")
       /\ UNCHANGED <<sessionVars, audioContext, readyState, failing, mics, players,
                      modules, pend>>]_vars

\* C3 witness: a frame was dropped on an open connection because of the lock.
C3_FrameDroppedUnderLock ==
  /\ op.ev = "frame_dropped"
  /\ sttLocked
  /\ IsOpen(World)

\* C4: toggleSession starts a session exactly when status is 'idle' and stops it
\* otherwise; startSession when status is not 'idle' and stopSession when status
\* is 'idle' leave every session variable unchanged.
C4_GuardedStartStop ==
  LET t == toggleSession(World)
  IN /\ status = "idle" => t.status = "connecting" /\ t.socket \notin {0, socket}
     /\ status # "idle" =>
          /\ t.status = "idle" /\ t.socket = 0 /\ t.mediaStream = 0
          /\ t.ttsWorkletNode = 0 /\ ~t.sttLocked /\ ~t.ttsPlaying
     /\ status # "idle" => SessionOf(startSession(World)) = SessionOf(World)
     /\ status = "idle" => SessionOf(stopSession(World)) = SessionOf(World)

\* C4 witness: stopSession was invoked in 'idle' (by the error event of a socket
\* that close() had failed) on a session that an earlier close left locked.
C4_StopInvokedWhenIdle ==
  /\ op.ev = "socket_error"
  /\ ~op.tore
  /\ sttLocked

\* C5: when the connection of a session opens while status is 'connecting',
\* status becomes 'listening': no state follows the open handler with the current
\* connection OPEN and status still 'connecting'.
C5_OpenLeavesConnecting ==
  ~(op.ev = "open" /\ IsOpen(World) /\ status = "connecting")

\* C6: once tts_end has been handled in 'processing' or 'speaking' with a chunk of
\* the turn delivered before it, status returns to 'listening' with the lock
\* released, unless the connection stops being open or the session goes idle.
C6_TurnEndsInListening ==
  (op.ev = "tts_end" /\ Busy /\ nChunk > 0)
    ~> (\/ status = "listening" /\ ~sttLocked
        \/ ~IsOpen(World)
        \/ status = "idle")

\* C7: a player posts 'ended' only with its end marker recorded and its buffer
\* drained, once per marker (process); consequently, when the controller
\* handles 'ended' and unlocks, no player node connected to the output of the
\* current AudioContext holds a sample of a chunk received before the end marker.
C7_UnlockAfterDrain ==
  op.ev = "ended" =>
    \A p \in 1..Len(players) :
       (players[p].conn /\ players[p].ctx = audioContext) =>
         \A j \in 1..Len(players[p].buf) : players[p].buf[j] > endSeq

\* C8: a late event of a torn-down session (the close or error event of its
\* socket, the resumption of a continuation suspended in it, 'ended' from a
\* player node created in it) changes no session variable.
C8_LateEventsChangeNothing ==
  [][/\ \A s \in torn :
          (readyState[s] # "CLOSED" /\ readyState'[s] = "CLOSED")
            => UNCHANGED sessionVars
     /\ \A i \in 1..Len(pend) :
          (/\ pend[i].c \in torn
           /\ \/ ResumeGetUserMedia(i, TRUE) \/ ResumeGetUserMedia(i, FALSE)
              \/ ResumeCaptureModule(i) \/ ResumeInitTtsPlayer(i))
            => UNCHANGED sessionVars
     /\ \A p \in 1..Len(players) :
          (players[p].ctx \in torn /\ PlayerEnded(p)) => UNCHANGED sessionVars]_vars

\* C9: when the session's connection closes or errors in a non-idle state the
\* session is torn down as by an explicit stop: status 'idle', connection
\* reference cleared, stream stopped and forgotten, capture and playback nodes
\* disconnected and forgotten, lock and playback flag reset.
C9_CloseTearsDown ==
  [][(/\ status # "idle"
      /\ socket # 0
      /\ SocketClosed(socket) \/ SocketError(socket))
       => /\ status' = "idle"
          /\ socket' = 0
          /\ mediaStream' = 0
          /\ mediaStream # 0 => ~mics'[mediaStream].live
          /\ userSourceNode' = 0
          /\ userSourceNode # 0 => ~mics'[userSourceNode].conn
          /\ userWorkletNode' = 0
          /\ ttsWorkletNode' = 0
          /\ ttsWorkletNode # 0 => ~players'[ttsWorkletNode].conn
          /\ ~sttLocked' /\ ~ttsPlaying']_vars

\* C10: when an 'error' message is handled in a non-idle state, status becomes
\* 'idle', the controller's connection is closed and its reference cleared, and
\* the controller's microphone stream is stopped and its player node
\* disconnected, both references cleared.
C10_ErrorMessageStopsSession ==
  [][\A s \in Sessions :
       (status # "idle" /\ ErrorMessage(s))
         => /\ status' = "idle"
            /\ socket' = 0
            /\ socket # 0 => readyState'[socket] \in {"CLOSING", "CLOSED"}
            /\ mediaStream' = 0
            /\ mediaStream # 0 => ~mics'[mediaStream].live
            /\ ttsWorkletNode' = 0
            /\ ttsWorkletNode # 0 => ~players'[ttsWorkletNode].conn]_vars

\* C10 witness: an 'error' message tore down a session that had been speaking:
\* its stream is stopped and its player node disconnected.
C10_ErrorTornDown ==
  /\ op.ev = "error" /\ op.tore
  /\ status = "idle" /\ socket = 0
  /\ \E k \in 1..Len(mics) : ~mics[k].live
  /\ \E p \in 1..Len(players) : ~players[p].conn

\* The session variables as useVoiceService() leaves them.
InitialSession == <<"idle", 0, 0, 0, 0, 0, FALSE, FALSE, FALSE, FALSE>>

\* C11: toggling on from 'idle' and off again before any network event is
\* delivered (the toggle that started the session is the event handled last, the
\* socket is still CONNECTING) leaves the session as it was initially: every
\* session variable at its initial value, no AudioContext open, no continuation
\* suspended and no socket with events still to come.
C11_ToggleTwiceRestoresInitial ==
  [][(/\ op.ev = "toggle" /\ status = "connecting"
      /\ socket # 0 /\ readyState[socket] = "CONNECTING"
      /\ Toggle)
       => /\ SessionOf(World)' = InitialSession
          /\ audioContext' = 0
          /\ pend' = <<>>
          /\ \A s \in Sessions : readyState'[s] \in {"NONE", "CLOSED"}]_vars

\* C12: right after stopSession has run in a non-idle state every session
\* attribute has its initial value: status 'idle', lock and playback flag false,
\* both taps, the connection, the stream and the capture and playback nodes absent.
C12_StopResetsSession ==
  /\ status # "idle" => SessionOf(stopSession(World)) = InitialSession
  /\ op.tore => SessionOf(World) = InitialSession

\* C12 witness: the user stopped a session that had a microphone stream and a
\* player node.
C12_StoppedFullSession ==
  /\ op.ev = "toggle" /\ op.tore
  /\ Len(mics) > 0 /\ Len(players) > 0

\* C13: every change of status made by handling a server message (stt_end,
\* final_answer, tts_chunk, tts_end, in any order) is one of the transitions of
\* the state machine.
C13_StatusFollowsMachine ==
  [][(/\ status' # status
      /\ \E s \in Sessions :
            \/ SttEnd(s) \/ FinalAnswer(s) \/ TtsEnd(s)
            \/ \E len \in ChunkLens : TtsChunk(s, len))
       => \/ status' = "idle"
          \/ status' = "connecting" /\ status = "idle"
          \/ status' = "listening" /\ status \in {"connecting", "speaking"}
          \/ status' = "processing" /\ status \in {"listening", "processing"}
          \/ status' = "speaking" /\ status \in {"listening", "processing"}]_vars

\* getUserMedia calls that have not settled yet.
GumPending(q) == Cardinality({i \in 1..Len(q) : q[i].k = "getUserMedia"})

\* C14: within one session the microphone stream is acquired at most once.  While
\* the first AudioContext is the current one, every getUserMedia call made so far
\* (settled with a stream, or still pending) was made by the first session.
C14_MicAcquiredOnce ==
  audioContext <= 1 => Len(mics) + GumPending(pend) <= 1

\* C15: when getUserMedia is denied in a non-idle state the session goes to
\* 'idle', the controller's connection is closed and its reference cleared, and
\* the handler calls getUserMedia no more; the capture setup after addModule
\* either connects the capture node or ends the same way; no step calls
\* getUserMedia from a state without a connection, so a new attempt takes a new
\* toggle.
C15_DenialStopsSession ==
  [][/\ \A i \in 1..Len(pend) :
          (status # "idle" /\ ResumeGetUserMedia(i, FALSE))
            => /\ status' = "idle"
               /\ socket' = 0
               /\ socket # 0 => readyState'[socket] \in {"CLOSING", "CLOSED"}
               /\ mediaStream' = 0
               /\ GumPending(pend') = GumPending(pend) - 1
     /\ \A i \in 1..Len(pend) :
          (status # "idle" /\ ResumeCaptureModule(i))
            => \/ /\ userWorkletNode' # 0 /\ userSourceNode' # 0
                  /\ mics'[userSourceNode'].conn
               \/ /\ status' = "idle"
                  /\ socket' = 0
                  /\ socket # 0 => readyState'[socket] \in {"CLOSING", "CLOSED"}
                  /\ mediaStream' = 0
     /\ GumPending(pend') > GumPending(pend) => socket # 0]_vars

\* C15 witness: a denied getUserMedia tore the session down.
C15_DeniedAndStopped ==
  /\ op.ev = "getUserMedia" /\ op.tore
  /\ status = "idle" /\ socket = 0

\* C17: in no reachable state are the tracks of the controller's live stream
\* enabled while sttLocked is true.
C17_MutedWhileLocked ==
  ~(/\ sttLocked
    /\ mediaStream # 0
    /\ mics[mediaStream].live /\ mics[mediaStream].enabled)

\* C18: within one session at most one player node is created.  While the first
\* AudioContext is the current one, every node was created by the first session.
C18_OnePlayerPerSession ==
  audioContext <= 1 => Len(players) <= 1

\* C16: the chunks of one turn of one session go to one FIFO in arrival order.
\* In the first session, with its connection open, no teardown and no end
\* marker so far, all buffered samples are in one player node, each buffer holds
\* the chunks in the order of their arrival numbers, and no chunk still waiting
\* for the player arrived before a chunk that is already buffered.
C16_OneFifoInArrivalOrder ==
  (audioContext = 1 /\ torn = {} /\ readyState[1] = "OPEN" /\ nEnd = 0) =>
    /\ Cardinality({p \in 1..Len(players) : players[p].buf # <<>>}) <= 1
    /\ \A p \in 1..Len(players) :
         \A j \in 1..(Len(players[p].buf) - 1) :
            players[p].buf[j] <= players[p].buf[j + 1]
    /\ \A i \in 1..Len(pend) :
         pend[i].k = "tts_chunk" =>
           \A p \in 1..Len(players) :
              \A j \in 1..Len(players[p].buf) : players[p].buf[j] < pend[i].cid

NonZero(x) == x # 0

\* C19: an output callback with block size n on a FIFO of k samples writes the
\* first min(k, n) samples in order, then n - min(k, n) zeros, and removes
\* exactly those samples; over any sequence of enqueues and callbacks the samples
\* written, followed by the samples still buffered, are the samples enqueued,
\* each once and in order.
C19_CallbackDrainsInOrder ==
  probe.kind = "player" =>
    LET k == Len(probe.before)
        m == IF k < probe.n THEN k ELSE probe.n
    IN /\ probe.last = "process" =>
            /\ probe.block = SubSeq(probe.before, 1, m)
                                \o [j \in 1..(probe.n - m) |-> 0]
            /\ probe.pl.buf = SubSeq(probe.before, m + 1, k)
       /\ SelectSeq(probe.heard, NonZero) \o probe.pl.buf
            = [j \in 1..probe.enq |-> j]

\* C19 witness: a callback found fewer samples than its block and filled up
\* with zeros.
C19_PartialBlock ==
  /\ probe.kind = "player" /\ probe.last = "process"
  /\ Len(probe.before) > 0 /\ Len(probe.before) < probe.n

\* C20: quantizing x yields clamp(x, -1, 1) * 32767 truncated toward zero, for
\* every x including x < -1 and x > 1, and the result lies in -32767..32767.
C20_QuantizeClamps ==
  (probe.kind = "sample" /\ probe.done) =>
    LET clamped == IF probe.x > QuantDen THEN QuantDen
                   ELSE IF probe.x < -QuantDen THEN -QuantDen ELSE probe.x
    IN /\ probe.q = Trunc(clamped * Int16Max, QuantDen)
       /\ probe.q \in (-Int16Max)..Int16Max

\* C21: for every buffer of signed 16-bit samples, encoding it as the capture
\* path does (little-endian bytes, then base64) and decoding it as the playback
\* path does reproduces the same sequence of sample values, negative samples
\* and the extremes -32768 and 32767 included.
C21_WireRoundTrip ==
  (probe.kind = "wire" /\ probe.littleEndian /\ probe.pushed) =>
    probe.i16 = probe.pcm

\* C21 witness: a buffer holding both extremes and a negative sample in a padded
\* text has been encoded and decoded.
C21_ExtremesDecoded ==
  /\ probe.kind = "wire" /\ probe.littleEndian /\ probe.pushed
  /\ probe.pcm = <<-(Int16Span \div 2), Int16Max>>
  /\ probe.b64[Len(probe.b64)] = "="
  /\ probe.i16 = probe.pcm

=============================================================================
